---- MODULE Spec2Model ----
(***************************************************************************)
(* A model of the ACN charging simulator: the Simulator control loop       *)
(* (sim/Simulator.py), the scheduling algorithms (sim/BaseAlgorithm.py),   *)
(* the Test Case (sim/TestCase.py) and the battery models                  *)
(* (acnportal/acnsim/models/battery.py).                                   *)
(*                                                                         *)
(* Numbers.  Python floats are modelled as exact rationals <<n, d>> with   *)
(* d > 0 in lowest terms, so every formula of the source is computed as    *)
(* written.  np.exp is computed to three decimal places (exp), and the     *)
(* charge a Linear2StageBattery stores is kept to a thousandth of a kWh    *)
(* (Store), as a float keeps finitely many digits.  Operands are Python    *)
(* numbers: a division by zero raises ZeroDivisionError.                   *)
(*                                                                         *)
(* The EV class and the Interface are not among the sources: an EV is a    *)
(* record owning one Battery sized to the energy it requests, and the      *)
(* Interface reports the grid, the maximum rate and the pilots last        *)
(* applied.  Simulator.run passes the iteration to TestCase.step, whose    *)
(* definition takes none: step_takes_iteration tells the Test Case as it   *)
(* is written (FALSE, the call raises TypeError) from one whose step       *)
(* accepts the iteration (TRUE).                                           *)
(***************************************************************************)
EXTENDS Integers, Sequences, FiniteSets, TLC

VARIABLES
    \* ---- the battery under test (SpecBattery) ----
    batt,       \* the Battery / Linear2StageBattery object
    bcall,      \* the last call made on it: arguments, state before, outcome
    ncalls,     \* number of calls made so far
    \* ---- a scheduling algorithm under test (SpecSched) ----
    sched_in,   \* what the Interface hands it: the grid, the active EVs, the last pilots
    sched_out,  \* the last call made on it and what it returned
    \* ---- a Simulator with its Test Case and scheduler (Spec) ----
    pc,                     \* "idle", "stepping" (in run), "terminal", "raised"
    raised,                 \* the exception that ended run(), "none" otherwise
    iteration,              \* Simulator.iteration
    last_schedule_update,   \* Simulator.last_schedule_update
    schedules,              \* Simulator.schedules
    max_iterations,         \* Simulator.max_iterations
    schedule_horizon,       \* the local schedule_horizon of run()
    scheduler,              \* the algorithm given to define_scheduler
    EVs,                    \* TestCase.EVs
    charging_data,          \* TestCase.charging_data
    last_applied_pilot_signals, \* what the Interface reports as last applied
    sched_calls,            \* how many times run() has invoked the scheduler
    step_log,               \* the iterations test_case.step has completed
    pilot_call,             \* the last get_current_pilot_signals() made outside run()
    step_takes_iteration,   \* whether the Test Case's step accepts the iteration
    \* ---- a battery charged, reset and charged again (SpecReplay) ----
    first_run,  \* the charge() calls made since construction, with their outcomes
    replay,     \* the outcomes of the same calls made again after reset()
    phase,      \* "first", "replay"
    \* ---- a call of batt_cap_fn (SpecSizing) ----
    size_in,    \* its arguments
    size_out    \* what it returned or raised

bvars == <<batt, bcall, ncalls>>
svars == <<sched_in, sched_out>>
simstate == <<iteration, last_schedule_update, schedules, schedule_horizon,
              EVs, charging_data, last_applied_pilot_signals, sched_calls, step_log>>
simvars == <<pc, raised, max_iterations, scheduler, step_takes_iteration, simstate,
            pilot_call>>
rvars == <<first_run, replay, phase>>
zvars == <<size_in, size_out>>
vars == <<bvars, svars, simvars, rvars, zvars>>

(***************************************************************************)
(* Exact rational arithmetic                                               *)
(***************************************************************************)
Abs(i) == IF i < 0 THEN -i ELSE i

RECURSIVE GCD(_, _)
GCD(a, b) == IF b = 0 THEN a ELSE GCD(b, a % b)

\* n/d with the common factor g taken out and the sign in the numerator.
Reduce(n, d, g) ==
    IF d < 0 THEN <<(-n) \div g, (-d) \div g>> ELSE <<n \div g, d \div g>>

\* The rational n/d (d # 0) in lowest terms with a positive denominator.
Rat(n, d) == Reduce(n, d, GCD(Abs(n), Abs(d)))

RI(i) == <<i, 1>>
\* Sums over the least common denominator and products with the common
\* factors cancelled first, so the intermediate integers stay small.
RAddOver(x, y, g) ==
    Rat(x[1] * (y[2] \div g) + y[1] * (x[2] \div g), (x[2] \div g) * y[2])
RAdd(x, y) == RAddOver(x, y, GCD(x[2], y[2]))
RNeg(x) == <<-x[1], x[2]>>
RSub(x, y) == RAdd(x, RNeg(y))
RMulOver(x, y, g1, g2) ==
    Rat((x[1] \div g1) * (y[1] \div g2), (x[2] \div g2) * (y[2] \div g1))
RMul(x, y) == RMulOver(x, y, GCD(Abs(x[1]), y[2]), GCD(Abs(y[1]), x[2]))
\* x / y for y # 0; the callers raise ZeroDivisionError before dividing by 0.
RDiv(x, y) == RMul(x, IF y[1] < 0 THEN <<-y[2], -y[1]>> ELSE <<y[2], y[1]>>)
RLt(x, y) == RSub(x, y)[1] < 0
RLe(x, y) == RSub(x, y)[1] <= 0
RIsZero(x) == x[1] = 0
RAbs(x) == <<Abs(x[1]), x[2]>>
RMin(x, y) == IF RLe(x, y) THEN x ELSE y
\* Python's min([a, b, c]): the first of the smallest.
RMin3(a, b, c) == RMin(RMin(a, b), c)

\* The first k decimal digits of r/d, for 0 <= r < d, as an integer.
RECURSIVE Decimals(_, _, _)
Decimals(r, d, k) ==
    IF k = 0 THEN 0
    ELSE ((r * 10) \div d) * (10 ^ (k - 1)) + Decimals((r * 10) % d, d, k - 1)

\* q, of integer part whole, to the nearest thousandth (halves go up).
RoundFrom(q, whole) ==
    Rat((whole * 10000 + Decimals(q[1] - whole * q[2], q[2], 4) + 5) \div 10, 1000)
RoundToThousandth(q) == RoundFrom(q, q[1] \div q[2])

(***************************************************************************)
(* np.exp(x) for x <= 0, to three decimal places: e^x = e^-k * e^-f with k *)
(* the integer part of -x and f its fraction; e^f by its Taylor series.    *)
(* Numbers are counted in thousandths.                                     *)
(***************************************************************************)
RECURSIVE ExpSeries(_, _, _, _)
ExpSeries(f, i, term, sum) ==
    IF i > 10 \/ term = 0 THEN sum
    ELSE ExpSeries(f, i + 1, (term * f) \div (1000 * i), sum + (term * f) \div (1000 * i))

\* e^-k, with e^-1 = 0.368.
RECURSIVE ExpIntPow(_)
ExpIntPow(k) ==
    IF k = 0 THEN 1000
    ELSE IF k > 8 THEN 0
    ELSE (ExpIntPow(k - 1) * 368 + 500) \div 1000

\* 1/ef.
ExpInverse(ef) == (1000 * 1000 + ef \div 2) \div ef

\* e^-(a/b) for a >= 0, k the integer part of a/b.
ExpParts(a, b, k) ==
    Rat((ExpInverse(ExpSeries((2 * (a - k * b) * 1000 + b) \div (2 * b), 1, 1000, 1000))
            * ExpIntPow(k) + 500) \div 1000,
        1000)

exp(x) == ExpParts(-x[1], x[2], (-x[1]) \div x[2])

(***************************************************************************)
(* battery.py: Battery and Linear2StageBattery                             *)
(***************************************************************************)
IDEAL_BATTERY == "Battery"
TWO_STAGE_BATTERY == "Linear2StageBattery"

\* The outcome of a call: the exception raised ("none": it returned), the
\* object after the call and the value returned.
Returned(b, value) == [err |-> "none", b |-> b, ret |-> value]
Raised(exc, b) == [err |-> exc, b |-> b, ret |-> RI(0)]

\* Python's None, where a number may also stand.
None == <<>>

\* The check of Battery.__init__ on the initial charge.
init_charge_rejected(init_charge, capacity) == RLt(capacity, init_charge)

\* Battery.__init__ and Linear2StageBattery.__init__ (which calls it).
Battery_init(kind, capacity, init_charge, max_power, noise_level, transition_soc) ==
    IF init_charge_rejected(init_charge, capacity)
    THEN Raised("ValueError", [kind |-> kind])
    ELSE Returned([kind |-> kind,
                   capacity |-> capacity,
                   current_charge |-> init_charge,
                   init_charge |-> init_charge,
                   max_power |-> max_power,
                   current_charging_power |-> RI(0),
                   noise_level |-> noise_level,
                   transition_soc |-> transition_soc], RI(0))

\* Battery._soc
soc(b) == RDiv(b.current_charge, b.capacity)

\* A variant of the argument checks that lets negative values through.
charge_arguments_zero(voltage, period) == RIsZero(voltage) \/ RIsZero(period)

\* The argument checks both charge methods start with: whether they raise
\* ValueError.
charge_arguments_rejected(voltage, period) ==
    RLe(voltage, RI(0)) \/ RLe(period, RI(0))

\* A variant of charge_power below that does not stop at a full battery.
charge_power_beyond_full(b, pilot, voltage, period) ==
    RMin(RDiv(RMul(pilot, voltage), RI(1000)), b.max_power)

\* Rate which would fill the battery in period minutes.
rate_to_full(b, period) ==
    RDiv(RSub(b.capacity, b.current_charge), RDiv(period, RI(60)))

\* A variant of charge_power below that leaves max_power out.
charge_power_beyond_max(b, pilot, voltage, period) ==
    RMin(RDiv(RMul(pilot, voltage), RI(1000)), rate_to_full(b, period))

charge_power(b, pilot, voltage, period) ==
    RMin3(RDiv(RMul(pilot, voltage), RI(1000)), b.max_power, rate_to_full(b, period))

\* The assignments and the return of Battery.charge, for the charge_power cp.
Battery_charge_at(b, voltage, period, cp) ==
    Returned([b EXCEPT
                 !.current_charge = RAdd(b.current_charge, RMul(cp, RDiv(period, RI(60)))),
                 !.current_charging_power = cp],
             RDiv(RMul(cp, RI(1000)), voltage))

\* Battery.charge
Battery_charge(b, pilot, voltage, period) ==
    IF charge_arguments_rejected(voltage, period)
    THEN Raised("ValueError", b)
    ELSE Battery_charge_at(b, voltage, period, charge_power(b, pilot, voltage, period))

\* A variant of Battery.reset that leaves current_charging_power as it is.
Battery_reset_keeping_power(b, init_charge) ==
    IF init_charge = None
    THEN Returned([b EXCEPT !.current_charge = b.init_charge], RI(0))
    ELSE IF RLt(b.capacity, init_charge)
    THEN Raised("ValueError", b)
    ELSE Returned([b EXCEPT !.current_charge = init_charge], RI(0))

\* A variant of Battery.reset whose reset() keeps the present charge.
Battery_reset_keeping_charge(b, init_charge) ==
    IF init_charge = None
    THEN Returned([b EXCEPT !.current_charging_power = RI(0)], RI(0))
    ELSE IF RLt(b.capacity, init_charge)
    THEN Raised("ValueError", b)
    ELSE Returned([b EXCEPT !.current_charge = init_charge,
                            !.current_charging_power = RI(0)], RI(0))

\* Battery.reset; init_charge is None or a number.
Battery_reset(b, init_charge) ==
    IF init_charge = None
    THEN Returned([b EXCEPT !.current_charge = b.init_charge,
                            !.current_charging_power = RI(0)], RI(0))
    ELSE IF RLt(b.capacity, init_charge)
    THEN Raised("ValueError", b)
    ELSE Returned([b EXCEPT !.current_charge = init_charge,
                            !.current_charging_power = RI(0)], RI(0))

\* The float a Linear2StageBattery stores as its charge.
Store(q) == RoundToThousandth(q)

max_dsoc(b, period) ==
    RDiv(RDiv(b.max_power, b.capacity), RDiv(RI(60), period))

\* pilot_dsoc as first computed, and after the cap at max_dsoc.
raw_pilot_dsoc(b, pilot, voltage, period) ==
    RDiv(RDiv(RDiv(RMul(pilot, voltage), RI(1000)), b.capacity), RDiv(RI(60), period))
capped_dsoc(raw, md) == IF RLt(md, raw) THEN md ELSE raw
pilot_dsoc(b, pilot, voltage, period) ==
    capped_dsoc(raw_pilot_dsoc(b, pilot, voltage, period), max_dsoc(b, period))

pilot_transition_soc(b, pd, md) ==
    RAdd(b.transition_soc,
         RMul(RDiv(RSub(pd, md), md), RSub(b.transition_soc, RI(1))))

\* The last three statements of Linear2StageBattery.charge, for the average
\* charging power of the period.
charge_assign(b, voltage, curr_soc, power) ==
    Returned([b EXCEPT !.current_charge = Store(RMul(curr_soc, b.capacity)),
                       !.current_charging_power = power],
             RDiv(RMul(power, RI(1000)), voltage))

\* dsoc and the charging power, from the curr_soc after the noise.
charge_settle(b, voltage, period, curr_soc) ==
    charge_assign(b, voltage, curr_soc,
        RDiv(RMul(RSub(curr_soc, soc(b)), b.capacity), RDiv(period, RI(60))))

\* The noise: curr_soc -= abs(scaled_noise), when noise_level > 0.
charge_finish(b, curr_soc, voltage, period, raw_noise) ==
    charge_settle(b, voltage, period,
        IF RLt(RI(0), b.noise_level)
        THEN RSub(curr_soc,
                  RAbs(RDiv(RMul(raw_noise, RDiv(period, RI(60))), b.capacity)))
        ELSE curr_soc)

\* Linear2StageBattery.charge from the two assertions on, for the pilot_dsoc
\* pd and the pilot_transition_soc pts.
charge_stages(b, voltage, period, raw_noise, pd, pts) ==
    IF ~RLe(b.transition_soc, pts) \/ ~RLe(pts, RI(1))
    THEN Raised("AssertionError", b)
    ELSE IF RLt(soc(b), pts)
    THEN IF RIsZero(pd)
         THEN Raised("ZeroDivisionError", b)
         ELSE IF RLe(RI(1), RDiv(RSub(pts, soc(b)), pd))
         THEN charge_finish(b, RAdd(pd, soc(b)), voltage, period, raw_noise)
         ELSE charge_finish(b,
                  RAdd(RI(1),
                       RMul(exp(RDiv(RSub(RAdd(pd, soc(b)), pts), RSub(pts, RI(1)))),
                            RSub(pts, RI(1)))),
                  voltage, period, raw_noise)
    ELSE IF RIsZero(RSub(pts, RI(1)))
         THEN Raised("ZeroDivisionError", b)
         ELSE charge_finish(b,
                  RAdd(RI(1),
                       RMul(exp(RDiv(pd, RSub(pts, RI(1)))), RSub(soc(b), RI(1)))),
                  voltage, period, raw_noise)

\* Linear2StageBattery.charge from pilot_transition_soc on.
charge_transition(b, voltage, period, raw_noise, pd, md) ==
    charge_stages(b, voltage, period, raw_noise, pd, pilot_transition_soc(b, pd, md))

\* Linear2StageBattery.charge; raw_noise is the draw of np.random.normal,
\* read only when noise_level > 0.
Linear2StageBattery_charge(b, pilot, voltage, period, raw_noise) ==
    IF charge_arguments_rejected(voltage, period)
    THEN Raised("ValueError", b)
    ELSE IF RIsZero(b.capacity) \/ RIsZero(b.max_power)
    THEN Raised("ZeroDivisionError", b)
    ELSE charge_transition(b, voltage, period, raw_noise,
             pilot_dsoc(b, pilot, voltage, period), max_dsoc(b, period))

\* charge() of the object's class.
charge(b, pilot, voltage, period, raw_noise) ==
    IF b.kind = TWO_STAGE_BATTERY
    THEN Linear2StageBattery_charge(b, pilot, voltage, period, raw_noise)
    ELSE Battery_charge(b, pilot, voltage, period)

(***************************************************************************)
(* SpecBattery: one battery, any sequence of charge() and reset() calls    *)
(***************************************************************************)
MaxCalls == 3

BattKinds == {IDEAL_BATTERY, TWO_STAGE_BATTERY}
BattCapacities == {4, 5}             \* kWh
BattInitCharges == {-1, 0, 3, 4, 5}  \* kWh
BattMaxPowers == {2, 4}              \* kW
BattNoiseLevels == {0, 1}            \* kW
NoiseDraws == {-2, 0}                \* kW
ChargePilots == {0, 8, 16}           \* A
\* <<voltage (V), period (minutes)>>: one valid pair, and the invalid ones.
ChargeArgs == {<<250, 30>>, <<0, 30>>, <<-250, 30>>, <<250, 0>>, <<250, -30>>}
ResetCharges == {-1, 3, 6}           \* kWh

NoCall == [op |-> "none", pilot |-> 0, voltage |-> 0, period |-> 0,
           arg |-> None, pre |-> [kind |-> "none"], err |-> "none", ret |-> RI(0)]

\* The constructor returned: the battery exists.
BatteryMade(made) == made.err = "none" /\ batt = made.b

\* The batteries the constructors accept.
BatteryStart ==
    /\ \E kind \in BattKinds, cap \in BattCapacities, ic \in BattInitCharges,
          mp \in BattMaxPowers, nl \in BattNoiseLevels :
          BatteryMade(Battery_init(kind, RI(cap), RI(ic), RI(mp),
                          IF kind = TWO_STAGE_BATTERY THEN RI(nl) ELSE RI(0),
                          Rat(4, 5)))
    /\ bcall = NoCall
    /\ ncalls = 0

\* The call charge(pilot, vp[1], vp[2]) with the outcome out.
BChargeDone(pilot, vp, out) ==
    /\ batt' = out.b
    /\ bcall' = [op |-> "charge", pilot |-> pilot, voltage |-> vp[1],
                 period |-> vp[2], arg |-> None, pre |-> batt,
                 err |-> out.err, ret |-> out.ret]

BCharge ==
    /\ ncalls < MaxCalls
    /\ \E pilot \in ChargePilots, vp \in ChargeArgs, raw_noise \in NoiseDraws :
          /\ (RLt(RI(0), batt.noise_level) \/ raw_noise = 0)
          /\ BChargeDone(pilot, vp,
                 charge(batt, RI(pilot), RI(vp[1]), RI(vp[2]), RI(raw_noise)))
    /\ ncalls' = ncalls + 1
    /\ UNCHANGED <<svars, simvars, rvars, zvars>>

\* The call reset(x) with the outcome out.
BResetDone(x, out) ==
    /\ batt' = out.b
    /\ bcall' = [op |-> "reset", pilot |-> 0, voltage |-> 0, period |-> 0,
                 arg |-> x, pre |-> batt, err |-> out.err, ret |-> out.ret]

BReset ==
    /\ ncalls < MaxCalls
    /\ \E x \in {None} \cup {RI(c) : c \in ResetCharges} :
          BResetDone(x, Battery_reset(batt, x))
    /\ ncalls' = ncalls + 1
    /\ UNCHANGED <<svars, simvars, rvars, zvars>>

(***************************************************************************)
(* Python dictionaries and lists                                           *)
(***************************************************************************)
\* A dict is a function on its keys; {} is the function on no key.
EmptyDict == [k \in {} |-> 0]
Has(d, k) == k \in DOMAIN d
\* d with d[k] = v set.
Put(d, k, v) == [x \in (DOMAIN d) \cup {k} |-> IF x = k THEN v ELSE d[x]]

\* lst[i] of a Python list (a sequence here): i counts from 0, a negative i
\* from the end; any other i raises IndexError.
PyInRange(lst, i) == -Len(lst) <= i /\ i < Len(lst)
PyAt(lst, i) == IF i < 0 THEN lst[Len(lst) + i + 1] ELSE lst[i + 1]

\* lst.index(x): the first position (from 0) of x; ValueError when x is absent.
PyContains(lst, x) == \E i \in 1..Len(lst) : lst[i] = x
PyIndexOf(lst, x) == (CHOOSE i \in 1..Len(lst) :
                         lst[i] = x /\ \A j \in 1..(i - 1) : lst[j] # x) - 1

(***************************************************************************)
(* The Test Case's facility constants (TestCase.__init__)                  *)
(***************************************************************************)
VOLTAGE == 220
DEFAULT_MAX_RATE == 32
PERIOD == 1

(***************************************************************************)
(* The EV record.  Energies are in kWh, rates in A, times in steps.  An EV *)
(* owns one Battery, sized to the energy it requests and empty on arrival. *)
(***************************************************************************)
EV_init(session_id, arrival, departure, requested_energy, max_rate) ==
    [session_id |-> session_id,
     arrival |-> arrival,
     departure |-> departure,
     requested_energy |-> requested_energy,
     max_rate |-> max_rate,
     energy_delivered |-> RI(0),
     battery |-> Battery_init(IDEAL_BATTERY, requested_energy, RI(0),
                     RDiv(RI(max_rate * VOLTAGE), RI(1000)), RI(0), Rat(4, 5)).b]

remaining_demand(ev) == RSub(ev.requested_energy, ev.energy_delivered)

(***************************************************************************)
(* BaseAlgorithm.py                                                        *)
(***************************************************************************)
increase_new_index(allowable_rates, current_rate) ==
    IF PyIndexOf(allowable_rates, current_rate) + 1 >= Len(allowable_rates)
    THEN Len(allowable_rates) - 1
    ELSE PyIndexOf(allowable_rates, current_rate) + 1

\* BaseAlgorithm.increase_charging_rate, for a current_rate of the grid.
increase_charging_rate(allowable_rates, current_rate) ==
    PyAt(allowable_rates, increase_new_index(allowable_rates, current_rate))

\* A variant of decrease_new_index without the clamp at 0.
decrease_new_index_unclamped(allowable_rates, current_rate) ==
    PyIndexOf(allowable_rates, current_rate) - 1

decrease_new_index(allowable_rates, current_rate) ==
    IF PyIndexOf(allowable_rates, current_rate) - 1 < 0
    THEN 0
    ELSE PyIndexOf(allowable_rates, current_rate) - 1

\* BaseAlgorithm.decrease_charging_rate, for a current_rate of the grid.
decrease_charging_rate(allowable_rates, current_rate) ==
    PyAt(allowable_rates, decrease_new_index(allowable_rates, current_rate))

\* A variant of the test below that also replaces on an equal departure.
earlier_or_equal_departure(evs, earliest, i) ==
    earliest = 0 \/ evs[earliest].departure >= evs[i].departure

\* The test of EarliestDeadlineFirstAlgorithm.get_earliest_EV: ev replaces
\* the earliest so far (0: None).
earlier_departure(evs, earliest, i) ==
    earliest = 0 \/ evs[earliest].departure > evs[i].departure

\* get_earliest_EV: the scan from position i on; the result is a position in
\* EVs, 0 for None.
RECURSIVE earliest_scan(_, _, _)
earliest_scan(evs, i, earliest) ==
    IF i > Len(evs) THEN earliest
    ELSE earliest_scan(evs, i + 1,
             IF earlier_departure(evs, earliest, i) THEN i ELSE earliest)

get_earliest_EV(evs) == earliest_scan(evs, 1, 0)

\* LeastLaxityFirstAlgorithm.get_slack_time
get_slack_time(ev, max_charging_rate) ==
    RDiv(RSub(ev.requested_energy, ev.energy_delivered), RI(max_charging_rate))

\* A variant of the test below that also replaces on an equal slack.
less_or_equal_slack(st, current_slack) == st[1] = 0 \/ RLe(current_slack, st[2])

\* The test of get_least_slack_EV, st = <<least_slack_EV, least_slack>>.
less_slack(st, current_slack) == st[1] = 0 \/ RLt(current_slack, st[2])

\* One pass of the loop of get_least_slack_EV, on the EV at position i.
least_slack_pass(st, i, current_slack) ==
    IF less_slack(st, current_slack) THEN <<i, current_slack>> ELSE st

RECURSIVE least_slack_scan(_, _, _, _)
least_slack_scan(evs, max_charging_rate, i, st) ==
    IF i > Len(evs) THEN st[1]
    ELSE least_slack_scan(evs, max_charging_rate, i + 1,
             least_slack_pass(st, i, get_slack_time(evs[i], max_charging_rate)))

get_least_slack_EV(evs, max_charging_rate) ==
    least_slack_scan(evs, max_charging_rate, 1, <<0, RI(0)>>)

\* A variant that steps an EV with no recorded pilot from 1.
last_pilot_signal_from_one(ev, last_applied) ==
    IF Has(last_applied, ev.session_id)
    THEN last_applied[ev.session_id]
    ELSE 1

\* The pilot an EV is stepped from: its last applied one, 0 if none recorded.
last_pilot_signal(ev, last_applied) ==
    IF Has(last_applied, ev.session_id)
    THEN last_applied[ev.session_id]
    ELSE 0

\* The loop both schedule methods share, from position i on: chosen is the
\* position get_earliest_EV / get_least_slack_EV returned.
\* charge_rates of one pass of the loop, for the EV ev and the chosen one.
charge_rates(ev, chosen_EV, allowable_rates, last) ==
    IF ev.session_id = chosen_EV.session_id
    THEN <<increase_charging_rate(allowable_rates, last)>>
    ELSE <<decrease_charging_rate(allowable_rates, last)>>

RECURSIVE schedule_loop(_, _, _, _, _, _)
schedule_loop(active_EVs, chosen, last_applied, allowable_rates, i, schedule) ==
    IF i > Len(active_EVs) THEN Returned(schedule, RI(0))
    ELSE IF ~PyContains(allowable_rates, last_pilot_signal(active_EVs[i], last_applied))
    THEN Raised("ValueError", EmptyDict)
    ELSE schedule_loop(active_EVs, chosen, last_applied, allowable_rates, i + 1,
             Put(schedule, active_EVs[i].session_id,
                 charge_rates(active_EVs[i], active_EVs[chosen], allowable_rates,
                              last_pilot_signal(active_EVs[i], last_applied))))

\* EarliestDeadlineFirstAlgorithm.schedule
EDF_schedule(active_EVs, last_applied, allowable_rates) ==
    schedule_loop(active_EVs, get_earliest_EV(active_EVs),
                  last_applied, allowable_rates, 1, EmptyDict)

\* LeastLaxityFirstAlgorithm.schedule
LLF_schedule(active_EVs, last_applied, allowable_rates, max_charging_rate) ==
    schedule_loop(active_EVs, get_least_slack_EV(active_EVs, max_charging_rate),
                  last_applied, allowable_rates, 1, EmptyDict)

\* schedule() of the algorithm's class.
schedule(algorithm, active_EVs, last_applied, allowable_rates, max_charging_rate) ==
    IF algorithm = "EDF"
    THEN EDF_schedule(active_EVs, last_applied, allowable_rates)
    ELSE LLF_schedule(active_EVs, last_applied, allowable_rates,
                      max_charging_rate)

(***************************************************************************)
(* SpecSched: one call of a scheduling algorithm on any input              *)
(***************************************************************************)
MaxActive == 2

\* The ascending grids get_allowable_pilot_signals may return.
Grids == {<<0, 8, 16, 32>>, <<0, 6>>, <<0>>}
SchedDepartures == {2, 3}
SchedDelivered == {0, 1, 2}     \* kWh, of 1 kWh requested
GridValues(g) == {g[i] : i \in 1..Len(g)}

NoSchedCall == [op |-> "none", arg |-> 0, err |-> "none", schedule |-> EmptyDict,
                rate |-> 0]

\* Grids without the value 0, which an Interface may report as well.
GridsWithoutZero == {<<6, 8>>, <<8, 16, 32>>}

\* The active EVs: n of them, with distinct session ids, in any order; the
\* grid is one of grids, and the pilot last applied to an EV, where one is
\* recorded, is a value of the grid.
SchedStartOn(grids) ==
    /\ \E g \in grids, n \in 0..MaxActive :
       \E ids \in [1..n -> 1..MaxActive], deps \in [1..n -> SchedDepartures],
          dels \in [1..n -> SchedDelivered],
          last \in [1..n -> {-1} \cup GridValues(g)] :
          /\ \A i, j \in 1..n : i # j => ids[i] # ids[j]
          /\ sched_in =
               [allowable_rates |-> g,
                max_charging_rate |-> DEFAULT_MAX_RATE,
                active_EVs |->
                    [i \in 1..n |->
                        [EV_init(ids[i], 0, deps[i], RI(1), DEFAULT_MAX_RATE)
                            EXCEPT !.energy_delivered = RI(dels[i])]],
                \* -1: no pilot recorded for the EV
                last_applied_pilot_signals |->
                    [sid \in {ids[i] : i \in {k \in 1..n : last[k] # -1}} |->
                        last[CHOOSE i \in 1..n : ids[i] = sid]]]
    /\ sched_out = NoSchedCall

SchedStart == SchedStartOn(Grids)

\* The call schedule(active_EVs) of the algorithm, with the outcome out.
ScheduleDone(algorithm, out) ==
    sched_out' = [op |-> algorithm, arg |-> 0, err |-> out.err,
                  schedule |-> out.b, rate |-> 0]

SCallSchedule ==
    /\ sched_out.op = "none"
    /\ \E algorithm \in {"EDF", "LLF"} :
          ScheduleDone(algorithm,
              schedule(algorithm, sched_in.active_EVs,
                       sched_in.last_applied_pilot_signals,
                       sched_in.allowable_rates, sched_in.max_charging_rate))
    /\ UNCHANGED <<sched_in, bvars, simvars, rvars, zvars>>

SCallIncrease ==
    /\ sched_out.op = "none"
    /\ \E r \in GridValues(sched_in.allowable_rates) :
          sched_out' = [op |-> "increase", arg |-> r, err |-> "none",
                        schedule |-> EmptyDict,
                        rate |-> increase_charging_rate(sched_in.allowable_rates, r)]
    /\ UNCHANGED <<sched_in, bvars, simvars, rvars, zvars>>

SCallDecrease ==
    /\ sched_out.op = "none"
    /\ \E r \in GridValues(sched_in.allowable_rates) :
          sched_out' = [op |-> "decrease", arg |-> r, err |-> "none",
                        schedule |-> EmptyDict,
                        rate |-> decrease_charging_rate(sched_in.allowable_rates, r)]
    /\ UNCHANGED <<sched_in, bvars, simvars, rvars, zvars>>

(***************************************************************************)
(* TestCase.py                                                             *)
(***************************************************************************)
\* EV.charge(pilot): the EV's Battery is charged at the Test Case's voltage
\* and period; the energy delivered is added to the EV's account.  out is
\* the outcome of the Battery's charge().
EV_charged(ev, out) ==
    IF out.err # "none" THEN Raised(out.err, ev)
    ELSE Returned([ev EXCEPT
             !.battery = out.b,
             !.energy_delivered =
                 RAdd(ev.energy_delivered,
                      RMul(RDiv(RMul(out.ret, RI(VOLTAGE)), RI(1000)),
                           RDiv(RI(PERIOD), RI(60))))],
             out.ret)

EV_charge(ev, pilot) ==
    EV_charged(ev, charge(ev.battery, RI(pilot), RI(VOLTAGE), RI(PERIOD), RI(0)))

\* TestCase.step, from position i of self.EVs on.  tc = [EVs, charging_data];
\* an exception leaves what the loop has done so far.  step_pass is the
\* pass of the loop on position i once ev.charge() has had the outcome out.
RECURSIVE step_loop(_, _, _)
RECURSIVE step_pass(_, _, _, _)
step_pass(tc, pilot_signals, i, out) ==
    IF out.err # "none" THEN Raised(out.err, tc)
    ELSE step_loop([EVs |-> [tc.EVs EXCEPT ![i] = out.b],
                    charging_data |->
                        Put(tc.charging_data, tc.EVs[i].session_id, out.ret)],
                   pilot_signals, i + 1)

step_loop(tc, pilot_signals, i) ==
    IF i > Len(tc.EVs) THEN Returned(tc, RI(0))
    ELSE IF ~Has(pilot_signals, tc.EVs[i].session_id)
    THEN Raised("KeyError", tc)
    ELSE step_pass(tc, pilot_signals, i,
             EV_charge(tc.EVs[i], pilot_signals[tc.EVs[i].session_id]))

\* TestCase.step(pilot_signals)
step(tc, pilot_signals) == step_loop(tc, pilot_signals, 1)

\* The test of TestCase.get_active_EVs.
is_active(ev) == RLt(RI(0), remaining_demand(ev))

\* TestCase.get_active_EVs
get_active_EVs(evs) == SelectSeq(evs, is_active)

(***************************************************************************)
(* Simulator.py                                                            *)
(***************************************************************************)
\* Simulator.__init__
INIT_ITERATION == 0
INIT_LAST_SCHEDULE_UPDATE == -1

\* get_schedule_horizon: the loop over the items not yet visited.
RECURSIVE horizon_loop(_, _, _)
horizon_loop(scheds, todo, min_horizon) ==
    IF todo = {} THEN min_horizon
    ELSE LET ev_id == CHOOSE k \in todo : TRUE
         IN  horizon_loop(scheds, todo \ {ev_id},
                 IF min_horizon > Len(scheds[ev_id])
                 THEN Len(scheds[ev_id])
                 ELSE min_horizon)

\* Simulator.get_schedule_horizon
get_schedule_horizon(scheds) == horizon_loop(scheds, DOMAIN scheds, 0)

\* The index get_current_pilot_signals reads of a schedule.
pilot_index(sch_list, iterations_since_last_update) ==
    IF iterations_since_last_update > Len(sch_list)
    THEN -1
    ELSE iterations_since_last_update

\* Simulator.get_current_pilot_signals
get_current_pilot_signals(scheds, iter, last_update) ==
    IF \E ev_id \in DOMAIN scheds :
          ~PyInRange(scheds[ev_id], pilot_index(scheds[ev_id], iter - last_update))
    THEN Raised("IndexError", EmptyDict)
    ELSE Returned([ev_id \in DOMAIN scheds |->
                      PyAt(scheds[ev_id], pilot_index(scheds[ev_id], iter - last_update))],
                  RI(0))

\* A variant of the test below that lets the schedule live one step longer.
schedule_due_late(iter, last_update, horizon) == iter > last_update + horizon + 1

\* The test of run() that the schedule has expired.
schedule_due(iter, last_update, horizon) == iter >= last_update + horizon

\* A variant that records the update as of the next iteration.
updated_last_schedule_update_next(iter) == iter + 1

\* What run() sets last_schedule_update to after the scheduler ran.
updated_last_schedule_update(iter) == iter

\* The Interface, as the algorithms see it.
allowable_pilot_signals == <<0, 8, 16, 32>>
interface_max_charging_rate == DEFAULT_MAX_RATE
\* get_last_applied_pilot_signals after a step: the pilots of the step, and
\* for the other EVs the pilots recorded before.
record_applied(last, pilot_signals) ==
    [sid \in (DOMAIN last) \cup (DOMAIN pilot_signals) |->
        IF Has(pilot_signals, sid) THEN pilot_signals[sid] ELSE last[sid]]

\* One pass of the while loop of Simulator.run on the state s; the result
\* carries the exception that escaped ("none": the pass completed).  The
\* pass is split where a call returns: run_stepped after test_case.step,
\* run_step after get_current_pilot_signals, run_scheduled after
\* scheduler.run.
run_stepped(s, pilot_signals, stepped) ==
    IF stepped.err # "none"
    THEN [s EXCEPT !.raised = stepped.err,
                   !.EVs = stepped.b.EVs,
                   !.charging_data = stepped.b.charging_data]
    ELSE [s EXCEPT !.EVs = stepped.b.EVs,
                   !.charging_data = stepped.b.charging_data,
                   !.last_applied_pilot_signals =
                       record_applied(s.last_applied_pilot_signals, pilot_signals),
                   !.step_log = Append(s.step_log, s.iteration),
                   !.iteration = s.iteration + 1]

\* Simulator.run calls test_case.step(pilot_signals, self.iteration), and
\* step of TestCase.py takes pilot_signals only: the call raises TypeError.
\* Where the Test Case's step takes the iteration as well (and does not
\* read it), the call goes through.
run_step(s, pilots) ==
    IF pilots.err # "none" THEN [s EXCEPT !.raised = pilots.err]
    ELSE IF ~s.step_takes_iteration THEN [s EXCEPT !.raised = "TypeError"]
    ELSE run_stepped(s, pilots.b,
             step([EVs |-> s.EVs, charging_data |-> s.charging_data], pilots.b))

run_pilots(s) ==
    run_step(s, get_current_pilot_signals(s.schedules, s.iteration,
                                          s.last_schedule_update))

run_scheduled(s, sched) ==
    IF sched.err # "none" THEN [s EXCEPT !.raised = sched.err]
    ELSE run_pilots([s EXCEPT
             !.schedules = sched.b,
             !.last_schedule_update = updated_last_schedule_update(s.iteration),
             !.schedule_horizon = get_schedule_horizon(sched.b),
             !.sched_calls = s.sched_calls + 1])

run_iteration(s) ==
    IF schedule_due(s.iteration, s.last_schedule_update, s.schedule_horizon)
    THEN run_scheduled(s,
             schedule(s.scheduler, get_active_EVs(s.EVs),
                      s.last_applied_pilot_signals, allowable_pilot_signals,
                      interface_max_charging_rate))
    ELSE run_pilots(s)

(***************************************************************************)
(* Spec: a Simulator is built on a Test Case, given a scheduler, and run   *)
(***************************************************************************)
MaxIterations == 4
NumEVs == 2

EVArrivals == {0, 1}
EVDepartures == {2, 3}
\* kWh: less than one step at 8 A delivers, what it delivers, and more than
\* the run can deliver.
EVRequested == {Rat(1, 100), Rat(11, 375), RI(1)}

NoPilotCall == [called |-> FALSE, err |-> "none", pilot_signals |-> EmptyDict,
                schedules |-> EmptyDict, offset |-> 0]

SimState ==
    [iteration |-> iteration, last_schedule_update |-> last_schedule_update,
     schedules |-> schedules, schedule_horizon |-> schedule_horizon,
     scheduler |-> scheduler, EVs |-> EVs, charging_data |-> charging_data,
     last_applied_pilot_signals |-> last_applied_pilot_signals,
     sched_calls |-> sched_calls, step_log |-> step_log,
     step_takes_iteration |-> step_takes_iteration, raised |-> "none"]

SimStart ==
    /\ pc = "idle"
    /\ raised = "none"
    /\ iteration = INIT_ITERATION
    /\ last_schedule_update = INIT_LAST_SCHEDULE_UPDATE
    /\ schedules = EmptyDict
    /\ max_iterations \in 0..MaxIterations
    /\ schedule_horizon = 0
    /\ scheduler \in {"EDF", "LLF"}
    /\ \E arr \in [1..NumEVs -> EVArrivals], dep \in [1..NumEVs -> EVDepartures],
          req \in [1..NumEVs -> EVRequested] :
          EVs = [i \in 1..NumEVs |->
                    EV_init(i, arr[i], dep[i], req[i], DEFAULT_MAX_RATE)]
    /\ charging_data = EmptyDict
    /\ last_applied_pilot_signals = EmptyDict
    /\ sched_calls = 0
    /\ step_log = <<>>
    /\ pilot_call = NoPilotCall
    /\ step_takes_iteration \in BOOLEAN

\* run() is entered: schedule_horizon = 0.
RunStart ==
    /\ pc = "idle"
    /\ pc' = "stepping"
    /\ schedule_horizon' = 0
    /\ UNCHANGED <<raised, iteration, last_schedule_update, schedules, max_iterations,
                   scheduler, EVs, charging_data, last_applied_pilot_signals,
                   sched_calls, step_log, pilot_call, step_takes_iteration,
                   bvars, svars, rvars, zvars>>

\* The state after a pass of the loop that ended in t.
RunStepTo(t) ==
    /\ pc' = IF t.raised # "none" THEN "raised" ELSE "stepping"
    /\ raised' = t.raised
    /\ iteration' = t.iteration
    /\ last_schedule_update' = t.last_schedule_update
    /\ schedules' = t.schedules
    /\ schedule_horizon' = t.schedule_horizon
    /\ EVs' = t.EVs
    /\ charging_data' = t.charging_data
    /\ last_applied_pilot_signals' = t.last_applied_pilot_signals
    /\ sched_calls' = t.sched_calls
    /\ step_log' = t.step_log

\* One pass of the loop.
RunStep ==
    /\ pc = "stepping"
    /\ iteration < max_iterations
    /\ RunStepTo(run_iteration(SimState))
    /\ UNCHANGED <<max_iterations, scheduler, step_takes_iteration, pilot_call,
                   bvars, svars, rvars, zvars>>

\* The loop condition fails: run() returns.
RunExit ==
    /\ pc = "stepping"
    /\ ~(iteration < max_iterations)
    /\ pc' = "terminal"
    /\ UNCHANGED <<raised, max_iterations, scheduler, step_takes_iteration, simstate,
                   pilot_call, bvars, svars, rvars, zvars>>

\* The call with the outcome out; the record keeps what the call read.
PilotCallDone(out) ==
    pilot_call' = [called |-> TRUE, err |-> out.err, pilot_signals |-> out.b,
                   schedules |-> schedules,
                   offset |-> iteration - last_schedule_update]

\* get_current_pilot_signals() called on the Simulator while run() is not
\* executing.
CallGetCurrentPilotSignals ==
    /\ pc # "stepping"
    /\ PilotCallDone(get_current_pilot_signals(schedules, iteration,
                                               last_schedule_update))
    /\ UNCHANGED <<pc, raised, max_iterations, scheduler, step_takes_iteration,
                   simstate, bvars, svars, rvars, zvars>>

(***************************************************************************)
(* SpecReplay: a battery without noise is charged, reset() and charged     *)
(* again with the same arguments                                           *)
(***************************************************************************)
MaxReplay == 3

\* <<voltage (V), period (minutes)>> of the calls: a valid and an invalid pair.
ReplayArgs == {<<250, 30>>, <<250, -30>>}

\* The batteries the constructors accept, with noise_level = 0.
ReplayStart ==
    /\ \E kind \in BattKinds, cap \in BattCapacities, ic \in BattInitCharges,
          mp \in BattMaxPowers :
          BatteryMade(Battery_init(kind, RI(cap), RI(ic), RI(mp), RI(0), Rat(4, 5)))
    /\ bcall = NoCall
    /\ ncalls = 0
    /\ first_run = <<>>
    /\ replay = <<>>
    /\ phase = "first"

\* What is kept of a call: its arguments, the exception, the current
\* returned and the charge after the call.
Outcome(pilot, vp, out) ==
    [pilot |-> pilot, voltage |-> vp[1], period |-> vp[2], err |-> out.err,
     ret |-> out.ret, current_charge |-> out.b.current_charge]

\* A charge() of the first run, with the outcome out.
RFirstChargeDone(pilot, vp, out) ==
    /\ batt' = out.b
    /\ first_run' = Append(first_run, Outcome(pilot, vp, out))

RFirstCharge ==
    /\ phase = "first"
    /\ Len(first_run) < MaxReplay
    /\ \E pilot \in ChargePilots, vp \in ReplayArgs :
          RFirstChargeDone(pilot, vp,
              charge(batt, RI(pilot), RI(vp[1]), RI(vp[2]), RI(0)))
    /\ UNCHANGED <<bcall, ncalls, replay, phase, svars, simvars, zvars>>

\* reset() with no argument.
RReset ==
    /\ phase = "first"
    /\ batt' = Battery_reset(batt, None).b
    /\ phase' = "replay"
    /\ UNCHANGED <<bcall, ncalls, first_run, replay, svars, simvars, zvars>>

\* The next call of the first run is made again, with the outcome out.
RReplayChargeDone(call, out) ==
    /\ batt' = out.b
    /\ replay' = Append(replay, Outcome(call.pilot, <<call.voltage, call.period>>, out))

RReplayCharge ==
    /\ phase = "replay"
    /\ Len(replay) < Len(first_run)
    /\ RReplayChargeDone(first_run[Len(replay) + 1],
           charge(batt, RI(first_run[Len(replay) + 1].pilot),
                  RI(first_run[Len(replay) + 1].voltage),
                  RI(first_run[Len(replay) + 1].period), RI(0)))
    /\ UNCHANGED <<bcall, ncalls, first_run, phase, svars, simvars, zvars>>

(***************************************************************************)
(* battery.py: batt_cap_fn.  The operands of its divisions are numpy       *)
(* floats (cap is drawn from a numpy array, np.exp returns one), for which *)
(* a division by 0.0 gives inf, -inf or nan and no exception: a float is   *)
(* here a record of kind "num" with its value, or of kind "inf", "-inf" or *)
(* "nan".                                                                  *)
(***************************************************************************)
Num(q) == [kind |-> "num", val |-> q]
PosInf == [kind |-> "inf", val |-> RI(0)]
NegInf == [kind |-> "-inf", val |-> RI(0)]
NaN == [kind |-> "nan", val |-> RI(0)]

\* x >= q for a float x and a number q: never true of nan.
float_ge(x, q) == x.kind = "inf" \/ (x.kind = "num" /\ RLe(q, x.val))

\* The defaults of _get_init_cap.
init_cap_max_rate == 32
init_cap_transition_soc == Rat(4, 5)

potential_caps == <<8, 24, 40, 60, 85, 100>>

delta_soc(requested_energy, cap) == RDiv(requested_energy, RI(cap))

\* max_dsoc of _get_init_cap: the largest change of SoC in one period.
init_cap_max_dsoc(cap, voltage, period) ==
    RDiv(RDiv(RDiv(RMul(RI(init_cap_max_rate), voltage), RI(1000)), RI(cap)),
         RDiv(RI(60), period))

\* np.exp(max_dsoc * stay_dur / (transition_soc - 1)) - 1
closed_form_divisor(md, stay_dur) ==
    RSub(exp(RDiv(RMul(md, stay_dur), RSub(init_cap_transition_soc, RI(1)))), RI(1))

\* init_soc = 1 + delta_soc / divisor
closed_form_init_soc(delta, divisor) ==
    IF RIsZero(divisor)
    THEN IF delta[1] > 0 THEN PosInf ELSE IF delta[1] < 0 THEN NegInf ELSE NaN
    ELSE Num(RAdd(RI(1), RDiv(delta, divisor)))

delta_soc_from_init_soc(init_soc, md, stay_dur) ==
    IF RLe(stay_dur, RDiv(RSub(init_cap_transition_soc, init_soc), md))
    THEN RMul(md, stay_dur)
    ELSE RSub(RAdd(RI(1),
                   RMul(exp(RDiv(RSub(RAdd(RMul(md, stay_dur), init_soc),
                                      init_cap_transition_soc),
                                 RSub(init_cap_transition_soc, RI(1)))),
                        RSub(init_cap_transition_soc, RI(1)))),
              init_soc)

\* The tolerance of binsearch.  The source's is 1e-9 on 64-bit floats; np.exp
\* being computed to three decimal places here, the search stops at that
\* resolution.
binsearch_tol == Rat(1, 1000)

RECURSIVE binsearch(_, _, _, _, _)
RECURSIVE binsearch_at(_, _, _, _, _, _, _)
\* binsearch once val = f(mid) is computed.
binsearch_at(mid, val, lb, ub, targ, md, stay_dur) ==
    IF RLt(RAbs(RSub(val, targ)), binsearch_tol) THEN mid
    ELSE IF RLt(RI(0), RSub(val, targ)) THEN binsearch(mid, ub, targ, md, stay_dur)
    ELSE binsearch(lb, mid, targ, md, stay_dur)

\* binsearch(delta_soc_from_init_soc, lb, ub, targ)
binsearch(lb, ub, targ, md, stay_dur) ==
    binsearch_at(RDiv(RAdd(lb, ub), RI(2)),
                 delta_soc_from_init_soc(RDiv(RAdd(lb, ub), RI(2)), md, stay_dur),
                 lb, ub, targ, md, stay_dur)

\* What _get_init_cap does: the exception it raises ("none": it returned)
\* and the float it returns.
InitCap(x) == [err |-> "none", ret |-> x]
InitCapRaised(exc) == [err |-> exc, ret |-> NaN]

\* _get_init_cap from the result of the binary search on.
init_cap_searched(cap, init_soc) ==
    IF ~RLt(init_soc, init_cap_transition_soc) THEN InitCapRaised("AssertionError")
    ELSE InitCap(Num(RMul(init_soc, RI(cap))))

\* _get_init_cap from the closed form init_soc on.
init_cap_from_closed_form(delta, md, stay_dur, cap, init_soc) ==
    IF float_ge(init_soc, init_cap_transition_soc) THEN InitCap(init_soc)
    ELSE IF RLt(delta_soc_from_init_soc(RI(0), md, stay_dur), delta)
    THEN InitCap(Num(RI(-1)))
    ELSE init_cap_searched(cap, binsearch(RI(0), RI(1), delta, md, stay_dur))

init_cap_with(delta, md, stay_dur, cap) ==
    init_cap_from_closed_form(delta, md, stay_dur, cap,
        closed_form_init_soc(delta, closed_form_divisor(md, stay_dur)))

_get_init_cap(requested_energy, stay_dur, cap, voltage, period) ==
    init_cap_with(delta_soc(requested_energy, cap),
                  init_cap_max_dsoc(cap, voltage, period), stay_dur, cap)

\* What batt_cap_fn does: the exception it raises, or the pair it returns.
Sized(cap, init) == [op |-> "batt_cap_fn", err |-> "none", cap |-> cap, init |-> init]
SizingRaised(exc) == [op |-> "batt_cap_fn", err |-> exc, cap |-> 0, init |-> NaN]

RECURSIVE caps_loop(_, _, _, _, _)
RECURSIVE caps_tried(_, _, _, _, _, _)
\* The body of the loop over potential_caps once _get_init_cap is back.
caps_tried(i, requested_energy, stay_dur, voltage, period, init) ==
    IF init.err # "none" THEN SizingRaised(init.err)
    ELSE IF float_ge(init.ret, RI(0)) THEN Sized(potential_caps[i], init.ret)
    ELSE caps_loop(i + 1, requested_energy, stay_dur, voltage, period)

caps_loop(i, requested_energy, stay_dur, voltage, period) ==
    IF i > Len(potential_caps) THEN SizingRaised("ValueError")
    ELSE IF RLt(RI(potential_caps[i]), requested_energy)
    THEN caps_loop(i + 1, requested_energy, stay_dur, voltage, period)
    ELSE caps_tried(i, requested_energy, stay_dur, voltage, period,
                    _get_init_cap(requested_energy, stay_dur, potential_caps[i],
                                  voltage, period))

batt_cap_fn(requested_energy, stay_dur, voltage, period) ==
    caps_loop(1, requested_energy, stay_dur, voltage, period)

(***************************************************************************)
(* SpecSizing: one call of batt_cap_fn on any of the inputs below          *)
(***************************************************************************)
SizingRequested == {1, 4, 7, 9, 20, 23, 50, 100, 120}
SizingStays == {0, 1, 2, 6, 24, 200}
\* <<voltage, period>>
SizingFacilities == {<<250, 30>>, <<220, 1>>, <<208, 5>>}

SizingStart ==
    /\ \E r \in SizingRequested, s \in SizingStays, f \in SizingFacilities :
          size_in = [requested_energy |-> RI(r), stay_dur |-> RI(s),
                     voltage |-> RI(f[1]), period |-> RI(f[2])]
    /\ size_out = [op |-> "none"]

SBattCapFn ==
    /\ size_in # <<>>
    /\ size_out.op = "none"
    /\ size_out' = batt_cap_fn(size_in.requested_energy, size_in.stay_dur,
                               size_in.voltage, size_in.period)
    /\ UNCHANGED <<size_in, bvars, svars, simvars, rvars>>

(***************************************************************************)
(* The specifications                                                      *)
(***************************************************************************)
BatteryIdle == batt = [kind |-> "none"] /\ bcall = NoCall /\ ncalls = 0
SchedIdle == sched_in = [allowable_rates |-> <<>>] /\ sched_out = NoSchedCall
SimIdle ==
    /\ pc = "none" /\ raised = "none" /\ iteration = 0 /\ last_schedule_update = 0
    /\ schedules = EmptyDict /\ max_iterations = 0 /\ schedule_horizon = 0
    /\ scheduler = "none" /\ EVs = <<>> /\ charging_data = EmptyDict
    /\ last_applied_pilot_signals = EmptyDict /\ sched_calls = 0 /\ step_log = <<>>
    /\ pilot_call = NoPilotCall /\ step_takes_iteration = FALSE

ReplayIdle == first_run = <<>> /\ replay = <<>> /\ phase = "none"
SizingIdle == size_in = <<>> /\ size_out = [op |-> "none"]

Init == SimStart /\ BatteryIdle /\ SchedIdle /\ ReplayIdle /\ SizingIdle
Next == RunStart \/ RunStep \/ RunExit \/ CallGetCurrentPilotSignals
Spec == Init /\ [][Next]_vars

BatteryInit == BatteryStart /\ SchedIdle /\ SimIdle /\ ReplayIdle /\ SizingIdle
BatteryNext == BCharge \/ BReset
SpecBattery == BatteryInit /\ [][BatteryNext]_vars

SchedInit == SchedStart /\ BatteryIdle /\ SimIdle /\ ReplayIdle /\ SizingIdle
SchedNext == SCallSchedule \/ SCallIncrease \/ SCallDecrease
SpecSched == SchedInit /\ [][SchedNext]_vars

ReplayInit == ReplayStart /\ SchedIdle /\ SimIdle /\ SizingIdle
ReplayNext == RFirstCharge \/ RReset \/ RReplayCharge
SpecReplay == ReplayInit /\ [][ReplayNext]_vars

\* SpecGrid: the calls of SpecSched, on the grids with and without 0.
GridInit ==
    /\ SchedStartOn(Grids \cup GridsWithoutZero)
    /\ BatteryIdle /\ SimIdle /\ ReplayIdle /\ SizingIdle
SpecGrid == GridInit /\ [][SchedNext]_vars

SizingInit == SizingStart /\ BatteryIdle /\ SchedIdle /\ SimIdle /\ ReplayIdle
SizingNext == SBattCapFn
SpecSizing == SizingInit /\ [][SizingNext]_vars
(***************************************************************************)
(* Properties of the Simulator (Spec)                                      *)
(***************************************************************************)
\* The shortest schedule of a non-empty mapping.
MinScheduleLength(scheds) ==
    CHOOSE n \in {Len(scheds[k]) : k \in DOMAIN scheds} :
        \A k \in DOMAIN scheds : n <= Len(scheds[k])

\* C1: once run() has invoked the scheduler, schedule_horizon is the
\* minimum schedule length over the EVs of the current schedules mapping;
\* for an empty mapping it is one that makes the next step re-schedule.
C1_HorizonIsMinimumLength ==
    sched_calls > 0 =>
        IF DOMAIN schedules = {}
        THEN schedule_horizon <= 1
        ELSE schedule_horizon = MinScheduleLength(schedules)

\* C2 as stated: iteration >= last_schedule_update >= 0 in every state, from
\* construction on.
C2_AsStated == iteration >= last_schedule_update /\ last_schedule_update >= 0

\* C2: iteration >= last_schedule_update >= -1 in every state; the value is
\* -1 from construction until run() first invokes the scheduler, and at
\* least 0 from then on.
C2_UpdateNotAfterIteration ==
    /\ iteration >= last_schedule_update
    /\ last_schedule_update >= -1
    /\ (last_schedule_update = -1) <=> (sched_calls = 0)

\* A run of at least two steps has returned: the scheduler ran at the last
\* one.
C2_Witness ==
    /\ pc = "terminal"
    /\ iteration >= 2
    /\ sched_calls >= 2
    /\ last_schedule_update = iteration - 1

\* C3: for schedules that are all non-empty and an offset k >= 0,
\* get_current_pilot_signals raises nothing and yields, for every EV of the
\* mapping, s[k] when k is an index of its schedule s and the last entry of
\* s otherwise.
C3_HoldsLastKnownPilot ==
    (/\ pilot_call.called
     /\ pilot_call.offset >= 0
     /\ \A ev_id \in DOMAIN pilot_call.schedules :
           Len(pilot_call.schedules[ev_id]) > 0)
    => /\ pilot_call.err = "none"
       /\ DOMAIN pilot_call.pilot_signals = DOMAIN pilot_call.schedules
       /\ \A ev_id \in DOMAIN pilot_call.schedules :
             pilot_call.pilot_signals[ev_id] =
                 IF pilot_call.offset < Len(pilot_call.schedules[ev_id])
                 THEN pilot_call.schedules[ev_id][pilot_call.offset + 1]
                 ELSE pilot_call.schedules[ev_id][Len(pilot_call.schedules[ev_id])]

\* C4: run() never ends on an exception; the Test Case has been stepped once
\* for each of the iterations 0 .. iteration-1, in this order; and run()
\* returns with iteration = max_iterations.
C4_RunsMaxIterationsSteps ==
    /\ pc # "raised"
    /\ step_log = [i \in 1..iteration |-> i - 1]
    /\ pc = "terminal" => iteration = max_iterations

\* The session ids of a list of EVs.
SessionIds(evs) == {evs[i].session_id : i \in 1..Len(evs)}

\* C13: at an iteration of the run, the EVs get_active_EVs returns (those
\* handed to the scheduler) are exactly the EVs of the Test Case with
\* arrival <= iteration < departure and remaining_demand > 0.
C13_ActiveWithinWindow ==
    (pc = "stepping" /\ iteration < max_iterations)
    => SessionIds(get_active_EVs(EVs)) =
           {EVs[i].session_id : i \in
               {j \in 1..Len(EVs) :
                   /\ EVs[j].arrival <= iteration
                   /\ iteration < EVs[j].departure
                   /\ RLt(RI(0), remaining_demand(EVs[j]))}}

\* The number of realized-current records the charging data holds for an
\* EV: charging_data maps a session id to one current.
RecordsHeld(session_id) == IF Has(charging_data, session_id) THEN 1 ELSE 0

\* C14: while no step has failed, the charging data holds for every EV of
\* the Test Case one record per step made, the records of earlier steps
\* being kept.
C14_TelemetryAccumulates ==
    raised = "none" =>
        \A i \in 1..Len(EVs) : RecordsHeld(EVs[i].session_id) = Len(step_log)

C18_ReinvocationRule ==
    [][(pc = "stepping" /\ iteration < max_iterations)
       => IF iteration >= last_schedule_update + schedule_horizon
          THEN /\ sched_calls' = sched_calls + 1
               /\ last_schedule_update' = iteration
               /\ iteration' = iteration + 1 =>
                     \A ev_id \in DOMAIN schedules' :
                         last_applied_pilot_signals'[ev_id] = schedules'[ev_id][1]
          ELSE /\ sched_calls' = sched_calls
               /\ UNCHANGED <<schedules, last_schedule_update, schedule_horizon>>]_vars

\* The third pass of a run is about to start, the scheduler having been
\* invoked at each of the first two.
C18_Witness ==
    /\ pc = "stepping"
    /\ iteration = 2
    /\ sched_calls = 2
    /\ last_schedule_update = 1
    /\ iteration < max_iterations

\* C19: schedule_horizon is 0 whatever the schedules; the scheduler is
\* invoked at every iteration, max_iterations times in all by the time the
\* run has ended; and every step made was made at offset iteration -
\* last_schedule_update = 0.
C19_SchedulesEveryStep ==
    /\ schedule_horizon = 0
    /\ pc \in {"terminal", "raised"} => sched_calls = max_iterations
    /\ (pc # "raised" /\ Len(step_log) > 0)
          => last_schedule_update = step_log[Len(step_log)]

\* The schedules the pass of run() about to begin works with, and the pilot
\* signals it hands to the Test Case's step.
SchedulesOfPass ==
    IF schedule_due(iteration, last_schedule_update, schedule_horizon)
    THEN schedule(scheduler, get_active_EVs(EVs), last_applied_pilot_signals,
                  allowable_pilot_signals, interface_max_charging_rate).b
    ELSE schedules
PilotsOfPass ==
    get_current_pilot_signals(SchedulesOfPass, iteration,
        IF schedule_due(iteration, last_schedule_update, schedule_horizon)
        THEN updated_last_schedule_update(iteration)
        ELSE last_schedule_update).b

\* C21: at every pass of a run the pilot signals handed to the Test Case's
\* step have an entry for every EV of the Test Case, the EVs that are not
\* active included, and no run ends on a KeyError for a missing session_id.
C21_NoMissingPilot ==
    /\ raised # "KeyError"
    /\ (pc = "stepping" /\ iteration < max_iterations)
          => \A i \in 1..Len(EVs) : Has(PilotsOfPass, EVs[i].session_id)

(***************************************************************************)
(* Properties of the scheduling algorithms (SpecSched)                     *)
(***************************************************************************)
\* The pilot the call read for the active EV at position i.
SchedLast(i) ==
    IF sched_in.active_EVs[i].session_id \in DOMAIN sched_in.last_applied_pilot_signals
    THEN sched_in.last_applied_pilot_signals[sched_in.active_EVs[i].session_id]
    ELSE 0

\* The call returned a schedule in which the active EV at position m alone
\* is stepped up and every other active EV is stepped down, each from its
\* own last pilot: one entry of length 1 per active EV and no other entry.
SchedSteppedUpOnly(m) ==
    /\ sched_out.err = "none"
    /\ DOMAIN sched_out.schedule =
           {sched_in.active_EVs[i].session_id : i \in 1..Len(sched_in.active_EVs)}
    /\ \A i \in 1..Len(sched_in.active_EVs) :
          sched_out.schedule[sched_in.active_EVs[i].session_id] =
              IF i = m
              THEN <<increase_charging_rate(sched_in.allowable_rates, SchedLast(i))>>
              ELSE <<decrease_charging_rate(sched_in.allowable_rates, SchedLast(i))>>

\* The first position, in scan order, of an active EV of minimum departure.
FirstMinDeparture ==
    CHOOSE m \in 1..Len(sched_in.active_EVs) :
        /\ \A j \in 1..Len(sched_in.active_EVs) :
              sched_in.active_EVs[m].departure <= sched_in.active_EVs[j].departure
        /\ \A j \in 1..(m - 1) :
              sched_in.active_EVs[j].departure > sched_in.active_EVs[m].departure

\* C5: a call of the Earliest-Deadline-First schedule on a non-empty active
\* set steps up exactly the first EV of minimum departure and steps down
\* every other active EV, each from its own last-applied pilot (0 if none is
\* recorded); the result has one entry of length 1 per active EV, no other.
C5_EDFStepsUpEarliest ==
    (sched_out.op = "EDF" /\ Len(sched_in.active_EVs) > 0)
    => SchedSteppedUpOnly(FirstMinDeparture)

\* EDF was called on two EVs of equal departure with different pilots, on a
\* grid where stepping up and stepping down differ.
C5_Witness ==
    /\ sched_out.op = "EDF"
    /\ Len(sched_in.active_EVs) = 2
    /\ sched_in.active_EVs[1].departure = sched_in.active_EVs[2].departure
    /\ Len(sched_in.allowable_rates) = 4
    /\ SchedLast(1) = 8 /\ SchedLast(2) = 16
    /\ sched_out.schedule[sched_in.active_EVs[1].session_id] = <<16>>
    /\ sched_out.schedule[sched_in.active_EVs[2].session_id] = <<8>>

\* The slack of the active EV at position i, times the facility's maximum
\* rate (which is positive).
SchedRemaining(i) ==
    RSub(sched_in.active_EVs[i].requested_energy,
         sched_in.active_EVs[i].energy_delivered)

\* The first position, in scan order, of an active EV of minimum slack.
FirstMinSlack ==
    CHOOSE m \in 1..Len(sched_in.active_EVs) :
        /\ \A j \in 1..Len(sched_in.active_EVs) :
              RLe(SchedRemaining(m), SchedRemaining(j))
        /\ \A j \in 1..(m - 1) : RLt(SchedRemaining(m), SchedRemaining(j))

\* C6: a call of the Least-Laxity-First schedule on a non-empty active set
\* steps up exactly the first EV of minimum slack (requested_energy -
\* energy_delivered) / max_charging_rate, whatever the sign of the slacks,
\* and steps down every other active EV, each from its own last pilot.
C6_LLFStepsUpLeastSlack ==
    (sched_out.op = "LLF" /\ Len(sched_in.active_EVs) > 0)
    => SchedSteppedUpOnly(FirstMinSlack)

\* LLF was called on two EVs of equal, negative slack with different
\* pilots, on a grid where stepping up and stepping down differ.
C6_Witness ==
    /\ sched_out.op = "LLF"
    /\ Len(sched_in.active_EVs) = 2
    /\ SchedRemaining(1) = RI(-1) /\ SchedRemaining(2) = RI(-1)
    /\ Len(sched_in.allowable_rates) = 4
    /\ SchedLast(1) = 8 /\ SchedLast(2) = 16
    /\ sched_out.schedule[sched_in.active_EVs[1].session_id] = <<16>>
    /\ sched_out.schedule[sched_in.active_EVs[2].session_id] = <<8>>

\* The grid value next above r (the highest when there is none above), and
\* next below r (the lowest when there is none below).
GridAbove(g, r) ==
    IF \E v \in GridValues(g) : v > r
    THEN CHOOSE v \in GridValues(g) :
             v > r /\ \A w \in GridValues(g) : w > r => v <= w
    ELSE g[Len(g)]
GridBelow(g, r) ==
    IF \E v \in GridValues(g) : v < r
    THEN CHOOSE v \in GridValues(g) :
             v < r /\ \A w \in GridValues(g) : w < r => v >= w
    ELSE g[1]

\* C7: for a value r of the ascending grid, increase_charging_rate(r) is
\* the next higher grid value, the highest when r is the highest, and
\* decrease_charging_rate(r) is the next lower grid value, the lowest when
\* r is the lowest; the result is a value of the grid.
C7_SteppingClampedToGrid ==
    /\ sched_out.op = "increase" =>
          /\ sched_out.rate = GridAbove(sched_in.allowable_rates, sched_out.arg)
          /\ sched_out.rate \in GridValues(sched_in.allowable_rates)
    /\ sched_out.op = "decrease" =>
          /\ sched_out.rate = GridBelow(sched_in.allowable_rates, sched_out.arg)
          /\ sched_out.rate \in GridValues(sched_in.allowable_rates)

\* decrease_charging_rate was called on the lowest value of a grid of four
\* and returned it.
C7_Witness ==
    /\ sched_out.op = "decrease"
    /\ Len(sched_in.allowable_rates) = 4
    /\ sched_out.arg = sched_in.allowable_rates[1]
    /\ sched_out.rate = sched_in.allowable_rates[1]

(***************************************************************************)
(* Properties of the batteries (SpecBattery)                               *)
(***************************************************************************)
\* C8: after every call made on a battery the constructor accepted (charge
\* with a pilot >= 0, reset), 0 <= current_charge <= capacity.
C8_ChargeWithinBounds ==
    ncalls > 0 =>
        /\ RLe(RI(0), batt.current_charge)
        /\ RLe(batt.current_charge, batt.capacity)

\* C9: with noise_level = 0, a charge() with a pilot >= 0 and positive
\* voltage and period returns, a current >= 0, and leaves current_charge at
\* least what it was before the call.
C9_ChargeNeverDecreases ==
    (/\ bcall.op = "charge"
     /\ RIsZero(bcall.pre.noise_level)
     /\ bcall.pilot >= 0 /\ bcall.voltage > 0 /\ bcall.period > 0)
    => /\ bcall.err = "none"
       /\ RLe(bcall.pre.current_charge, batt.current_charge)
       /\ RLe(RI(0), bcall.ret)

\* C10: a charge() with voltage <= 0 or period <= 0 raises ValueError and
\* leaves current_charge and current_charging_power as they were.
C10_BadArgumentsRejected ==
    (bcall.op = "charge" /\ (bcall.voltage <= 0 \/ bcall.period <= 0))
    => /\ bcall.err = "ValueError"
       /\ batt.current_charge = bcall.pre.current_charge
       /\ batt.current_charging_power = bcall.pre.current_charging_power

\* A Linear2StageBattery that has been charged is called with a negative
\* voltage: the call raises and the charge and power stay.
C10_Witness ==
    /\ bcall.op = "charge"
    /\ bcall.voltage < 0
    /\ bcall.err = "ValueError"
    /\ batt.kind = TWO_STAGE_BATTERY
    /\ batt.current_charge # batt.init_charge
    /\ ~RIsZero(batt.current_charging_power)
    /\ batt = bcall.pre

\* C11: reset() with no argument sets current_charge to the charge given at
\* construction, whatever calls came before; reset(x) with x <= capacity
\* sets it to x; reset(x) with x > capacity raises ValueError and leaves
\* current_charge and current_charging_power as they were; a reset that
\* succeeds sets current_charging_power to 0.  No call changes the charge
\* kept from construction.
C11_ResetRestoresCharge ==
    /\ ncalls > 0 => batt.init_charge = bcall.pre.init_charge
    /\ bcall.op = "reset" =>
          IF bcall.arg = None
          THEN /\ bcall.err = "none"
               /\ batt.current_charge = bcall.pre.init_charge
               /\ RIsZero(batt.current_charging_power)
          ELSE IF RLe(bcall.arg, bcall.pre.capacity)
          THEN /\ bcall.err = "none"
               /\ batt.current_charge = bcall.arg
               /\ RIsZero(batt.current_charging_power)
          ELSE /\ bcall.err = "ValueError"
               /\ batt.current_charge = bcall.pre.current_charge
               /\ batt.current_charging_power = bcall.pre.current_charging_power

\* reset() is called with no argument on a battery that was charged and
\* then reset to another charge: the charge of construction is back and
\* the power, which was not 0, is 0.
C11_Witness ==
    /\ ncalls = 3
    /\ bcall.op = "reset" /\ bcall.arg = None
    /\ bcall.pre.current_charge # batt.init_charge
    /\ ~RIsZero(bcall.pre.current_charging_power)
    /\ batt.current_charge = batt.init_charge
    /\ RIsZero(batt.current_charging_power)

\* The power the claim C17 gives for the last call: the least of
\* pilot * voltage / 1000, max_power and (capacity - current_charge) /
\* (period / 60), on the state before the call.
RulePower ==
    RMin(Rat(bcall.pilot * bcall.voltage, 1000),
         RMin(bcall.pre.max_power,
              RDiv(RSub(bcall.pre.capacity, bcall.pre.current_charge),
                   Rat(bcall.period, 60))))

\* C17: a charge() of a Battery with positive voltage and period delivers
\* the power RulePower: current_charge grows by that power times
\* period / 60, current_charging_power is that power, and the current
\* returned is that power * 1000 / voltage, which is at most the pilot.
C17_BaseChargeRule ==
    (/\ bcall.op = "charge"
     /\ bcall.pre.kind = IDEAL_BATTERY
     /\ bcall.voltage > 0 /\ bcall.period > 0)
    => /\ bcall.err = "none"
       /\ batt.current_charge =
              RAdd(bcall.pre.current_charge, RMul(RulePower, Rat(bcall.period, 60)))
       /\ batt.current_charging_power = RulePower
       /\ bcall.ret = RDiv(RMul(RulePower, RI(1000)), RI(bcall.voltage))
       /\ RLe(bcall.ret, RI(bcall.pilot))

\* A Battery was charged at the power its max_power allows, less than the
\* pilot asks and less than would fill it.
C17_Witness ==
    /\ bcall.op = "charge" /\ bcall.err = "none"
    /\ batt.kind = IDEAL_BATTERY
    /\ bcall.pilot = 16
    /\ batt.current_charging_power = batt.max_power
    /\ RLt(bcall.ret, RI(16))
    /\ RLt(batt.current_charge, batt.capacity)
    /\ RLt(bcall.pre.current_charge, batt.current_charge)

\* C22: on a Linear2StageBattery with 0 <= current_charge <= capacity, a
\* charge() with pilot 0 and positive voltage and period raises nothing,
\* leaves current_charge as it was and returns 0.
C22_ZeroPilotIsNoOp ==
    (/\ bcall.op = "charge"
     /\ bcall.pre.kind = TWO_STAGE_BATTERY
     /\ bcall.pilot = 0 /\ bcall.voltage > 0 /\ bcall.period > 0
     /\ RLe(RI(0), bcall.pre.current_charge)
     /\ RLe(bcall.pre.current_charge, bcall.pre.capacity))
    => /\ bcall.err = "none"
       /\ batt.current_charge = bcall.pre.current_charge
       /\ RIsZero(bcall.ret)

(***************************************************************************)
(* Properties of a battery charged again after reset() (SpecReplay)        *)
(***************************************************************************)
\* C12: with noise_level = 0, after reset() every call made again with the
\* arguments of the first run has the outcome it had in the first run: the
\* same exception or current returned, and the same current_charge after it.
C12_ReplayReproduces ==
    \A i \in 1..Len(replay) :
        /\ replay[i].err = first_run[i].err
        /\ replay[i].ret = first_run[i].ret
        /\ replay[i].current_charge = first_run[i].current_charge

\* Three calls that each raised the charge of a Linear2StageBattery have
\* all been made again.
C12_Witness ==
    /\ phase = "replay"
    /\ batt.kind = TWO_STAGE_BATTERY
    /\ Len(first_run) = 3 /\ Len(replay) = 3
    /\ RLt(batt.init_charge, first_run[1].current_charge)
    /\ RLt(first_run[1].current_charge, first_run[2].current_charge)
    /\ RLt(first_run[2].current_charge, first_run[3].current_charge)

(***************************************************************************)
(* Properties of batt_cap_fn (SpecSizing)                                  *)
(***************************************************************************)
SizingDone == size_out.op = "batt_cap_fn"

\* The i-th capacity qualifies: it is at least the energy requested, and a
\* battery of that capacity can take that energy within the stay when it
\* starts empty.
Qualifies(i) ==
    /\ RLe(size_in.requested_energy, RI(potential_caps[i]))
    /\ RLe(delta_soc(size_in.requested_energy, potential_caps[i]),
           delta_soc_from_init_soc(RI(0),
               init_cap_max_dsoc(potential_caps[i], size_in.voltage, size_in.period),
               size_in.stay_dur))

FirstQualifying ==
    CHOOSE i \in DOMAIN potential_caps :
        Qualifies(i) /\ \A j \in 1..(i - 1) : ~Qualifies(j)

SizingAsClaimed ==
    IF \E i \in DOMAIN potential_caps : Qualifies(i)
    THEN /\ size_out.err = "none"
         /\ size_out.cap = potential_caps[FirstQualifying]
         /\ size_out.init.kind = "num"
         /\ RLe(RI(0), size_out.init.val)
         /\ RLt(size_out.init.val, RI(size_out.cap))
    ELSE size_out.err = "ValueError"

\* C15: batt_cap_fn returns the first capacity of the list that is at least
\* the energy requested and for which a feasible initial charge exists, with
\* 0 <= init_charge < capacity, and raises the no-feasible-size error
\* exactly when no capacity of the list qualifies.
C15_SelectsFirstFeasible == SizingDone => SizingAsClaimed

\* The closed form init_soc of _get_init_cap for the capacity selected.
ClosedFormOfSelected ==
    closed_form_init_soc(
        delta_soc(size_in.requested_energy, size_out.cap),
        closed_form_divisor(
            init_cap_max_dsoc(size_out.cap, size_in.voltage, size_in.period),
            size_in.stay_dur))

\* The init_soc the binary search finds for the capacity selected.
SearchedOfSelected ==
    binsearch(RI(0), RI(1), delta_soc(size_in.requested_energy, size_out.cap),
              init_cap_max_dsoc(size_out.cap, size_in.voltage, size_in.period),
              size_in.stay_dur)

\* The maximum initial SoC found: the closed form when it is at least
\* transition_soc, what the binary search finds otherwise.
ClosedFormAccepted == float_ge(ClosedFormOfSelected, init_cap_transition_soc)
InitSocFound == IF ClosedFormAccepted THEN ClosedFormOfSelected ELSE Num(SearchedOfSelected)

InKWh(x, cap) == IF x.kind = "num" THEN Num(RMul(x.val, RI(cap))) ELSE x

\* C20: in both branches of _get_init_cap the initial charge returned is in
\* kWh: it is the maximum initial SoC found multiplied by the capacity
\* selected.
C20_InitChargeInKWh ==
    (SizingDone /\ size_out.err = "none")
        => size_out.init = InKWh(InitSocFound, size_out.cap)

(***************************************************************************)
(* Properties of schedule() on grids with and without 0 (SpecGrid)         *)
(***************************************************************************)
ScheduleCalled == sched_out.op \in {"EDF", "LLF"}

\* Every value schedule() passes to increase_charging_rate or
\* decrease_charging_rate is a value of the grid.
ValuesPassedOnGrid ==
    \A i \in 1..Len(sched_in.active_EVs) :
        PyContains(sched_in.allowable_rates,
                   last_pilot_signal(sched_in.active_EVs[i],
                                     sched_in.last_applied_pilot_signals))

\* Every pilot of the schedule returned is a value of the grid.
ScheduleOnGrid ==
    \A sid \in DOMAIN sched_out.schedule :
        \A k \in 1..Len(sched_out.schedule[sid]) :
            PyContains(sched_in.allowable_rates, sched_out.schedule[sid][k])

====
